---- MODULE Spec2Model ----
(***************************************************************************)
(* A model of the tax-ids crate: syntax validation of VAT identification   *)
(* numbers, dispatch of a tax id to its provider variant, and the          *)
(* Verifier pipeline (make_request, parse_response) of the four provider   *)
(* adapters BFS, VIES, HMRC and BRREG.                                     *)
(*                                                                         *)
(* Rust strings are TLA+ strings; the character at byte offset i-1 of s is *)
(* SubSeq(s, i, i).  All inputs are ASCII, so byte offsets and character   *)
(* positions coincide.                                                     *)
(***************************************************************************)
EXTENDS Integers, Sequences, FiniteSets, TLC

VARIABLES tax_ids, calls, sx, pr, nz

vars == <<tax_ids, calls, sx, pr, nz>>

(***************************************************************************)
(* Regular expressions.  The crate's patterns use literals, character      *)
(* classes with counted repetition, alternation, grouping and optional     *)
(* groups, always anchored with ^ and $.  A pattern is a tree; Ends gives  *)
(* the set of offsets at which a match starting at one of the offsets in I *)
(* can end.                                                                *)
(***************************************************************************)
Digits == {"0", "1", "2", "3", "4", "5", "6", "7", "8", "9"}

Upper == {"A", "B", "C", "D", "E", "F", "G", "H", "I", "J", "K", "L", "M",
          "N", "O", "P", "Q", "R", "S", "T", "U", "V", "W", "X", "Y", "Z"}

\* \s, restricted to the ASCII white space a TLA+ string can hold
Whitespace == {" ", "\t", "\n", "\f", "\r"}

Lit(str) == [t |-> "lit", s |-> str]

Cls(set, lo, hi) == [t |-> "cls", set |-> set, lo |-> lo, hi |-> hi]

Alt(rs) == [t |-> "alt", rs |-> rs]

Cat(rs) == [t |-> "cat", rs |-> rs]

Rep(r, lo, hi) == [t |-> "rep", r |-> r, lo |-> lo, hi |-> hi]

D(lo, hi) == Cls(Digits, lo, hi)

U1 == Cls(Upper, 1, 1)

RECURSIVE Ends(_, _, _)
Ends(r, s, I) ==
  CASE r.t = "lit" ->
         {i + Len(r.s) : i \in {i \in I : /\ i + Len(r.s) <= Len(s)
                                          /\ SubSeq(s, i + 1, i + Len(r.s)) = r.s}}
    [] r.t = "cls" ->
         UNION {{j \in (i + r.lo) .. (IF i + r.hi < Len(s) THEN i + r.hi ELSE Len(s)) :
                   \A k \in (i + 1) .. j : SubSeq(s, k, k) \in r.set} : i \in I}
    [] r.t = "alt" ->
         UNION {Ends(r.rs[k], s, I) : k \in DOMAIN r.rs}
    [] r.t = "cat" ->
         IF Len(r.rs) = 0 THEN I
         ELSE Ends(Cat(Tail(r.rs)), s, Ends(Head(r.rs), s, I))
    [] r.t = "rep" ->
         IF r.hi = 0 \/ I = {} THEN I
         ELSE (IF r.lo = 0 THEN I ELSE {})
              \cup Ends(Rep(r.r, (IF r.lo > 0 THEN r.lo - 1 ELSE 0), r.hi - 1), s, Ends(r.r, s, I))

\* Regex::is_match for a pattern written ^...$ : the whole string matches
is_match(pattern, s) == Len(s) \in Ends(pattern, s, {0})

EU_VAT_PATTERNS ==
     "AT" :> Cat(<<Lit("ATU"), D(8, 8)>>)
  @@ "BE" :> Cat(<<Lit("BE"), Cls({"0", "1"}, 1, 1), D(9, 9)>>)
  @@ "BG" :> Cat(<<Lit("BG"), D(9, 10)>>)
  @@ "CY" :> Cat(<<Lit("CY"), Cls({"0", "1", "2", "3", "4", "5", "6", "9"}, 1, 1),
                   D(7, 7), U1>>)
  @@ "CZ" :> Cat(<<Lit("CZ"), D(8, 10)>>)
  @@ "DE" :> Cat(<<Lit("DE"), D(9, 9)>>)
  @@ "DK" :> Cat(<<Lit("DK"), D(8, 8)>>)
  @@ "EE" :> Cat(<<Lit("EE10"), D(7, 7)>>)
  @@ "EL" :> Cat(<<Lit("EL"), D(9, 9)>>)
  @@ "ES" :> Cat(<<Lit("ES"), Alt(<<Cat(<<U1, D(8, 8)>>),
                                    Cat(<<D(8, 8), U1>>),
                                    Cat(<<U1, D(7, 7), U1>>)>>)>>)
  @@ "FI" :> Cat(<<Lit("FI"), D(8, 8)>>)
  @@ "FR" :> Cat(<<Lit("FR"), Cls((Upper \ {"I", "O"}) \cup Digits, 2, 2), D(9, 9)>>)
  @@ "HR" :> Cat(<<Lit("HR"), D(11, 11)>>)
  @@ "HU" :> Cat(<<Lit("HU"), D(8, 8)>>)
  @@ "IE" :> Cat(<<Lit("IE"), Alt(<<Cat(<<D(1, 1), U1, D(5, 5)>>),
                                    Cat(<<D(7, 7), Cls(Upper, 0, 1)>>)>>), U1>>)
  @@ "IT" :> Cat(<<Lit("IT"), D(11, 11)>>)
  @@ "LT" :> Cat(<<Lit("LT"), Alt(<<Cat(<<D(7, 7), Lit("1"), D(1, 1)>>),
                                    Cat(<<D(10, 10), Lit("1"), D(1, 1)>>)>>)>>)
  @@ "LU" :> Cat(<<Lit("LU"), D(8, 8)>>)
  @@ "LV" :> Cat(<<Lit("LV"), D(11, 11)>>)
  @@ "MT" :> Cat(<<Lit("MT"), D(8, 8)>>)
  @@ "NL" :> Cat(<<Lit("NL"), D(9, 9), Lit("B"), D(2, 2)>>)
  @@ "PL" :> Cat(<<Lit("PL"), D(10, 10)>>)
  @@ "PT" :> Cat(<<Lit("PT"), D(9, 9)>>)
  @@ "RO" :> Cat(<<Lit("RO"), Cls(Digits \ {"0"}, 1, 1), D(1, 9)>>)
  @@ "SE" :> Cat(<<Lit("SE"), D(10, 10), Lit("01")>>)
  @@ "SI" :> Cat(<<Lit("SI"), D(8, 8)>>)
  @@ "SK" :> Cat(<<Lit("SK"), D(10, 10)>>)
  @@ "XI" :> Cat(<<Lit("XI"), Alt(<<D(9, 9), D(12, 12),
                                    Cat(<<Alt(<<Lit("HA"), Lit("GD")>>), D(3, 3)>>)>>)>>)

GB_VAT_PATTERN ==
  "GB" :> Cat(<<Lit("GB"), Alt(<<D(9, 9), D(12, 12),
                                 Cat(<<Alt(<<Lit("HA"), Lit("GD")>>), D(3, 3)>>)>>)>>)

CH_VAT_PATTERN ==
  "CH" :> Cat(<<Lit("CHE"),
                Alt(<<D(9, 9),
                      Cat(<<Lit("-"), D(3, 3), Rep(Cat(<<Lit("."), D(3, 3)>>), 2, 2)>>)>>),
                Rep(Cat(<<Cls(Whitespace, 1, 1),
                          Alt(<<Lit("MWST"), Lit("TVA"), Lit("IVA")>>)>>), 0, 1)>>)

NO_VAT_PATTERN ==
  "NO" :> Cat(<<Lit("NO"), D(9, 9), Rep(Lit("MVA"), 0, 1)>>)

COUNTRIES ==
  <<"AT", "BE", "BG", "CY", "CZ", "DE", "DK", "EE", "EL", "ES", "FI", "FR", "HR", "HU",
    "IE", "IT", "LT", "LU", "LV", "MT", "NL", "PL", "PT", "RO", "SE", "SI", "SK", "XI">>

Contains(seq, x) == \E i \in DOMAIN seq : seq[i] = x

(***************************************************************************)
(* TaxIdType: the four provider variants and what each of them supplies.   *)
(***************************************************************************)
TaxIdTypes == {"gb_vat", "ch_vat", "no_vat", "eu_vat"}

\* the variants' maps with the GB variant also claiming Northern Ireland
syntax_map_gb_claims_xi(t) ==
  CASE t = "gb_vat" -> GB_VAT_PATTERN @@ ("XI" :> GB_VAT_PATTERN["GB"])
    [] t = "ch_vat" -> CH_VAT_PATTERN
    [] t = "no_vat" -> NO_VAT_PATTERN
    [] t = "eu_vat" -> EU_VAT_PATTERNS

syntax_map(t) ==
  CASE t = "gb_vat" -> GB_VAT_PATTERN
    [] t = "ch_vat" -> CH_VAT_PATTERN
    [] t = "no_vat" -> NO_VAT_PATTERN
    [] t = "eu_vat" -> EU_VAT_PATTERNS


\* the normalization without the case for Greece
country_code_from_tax_country_no_el(t, tax_country_code) ==
  IF t = "eu_vat"
  THEN CASE tax_country_code = "XI" -> "GB"
         [] OTHER -> tax_country_code
  ELSE tax_country_code

country_code_from_tax_country(t, tax_country_code) ==
  IF t = "eu_vat"
  THEN CASE tax_country_code = "XI" -> "GB"
         [] tax_country_code = "EL" -> "GR"
         [] OTHER -> tax_country_code
  ELSE tax_country_code

verifier(t) ==
  CASE t = "gb_vat" -> "Hmrc"
    [] t = "ch_vat" -> "BFS"
    [] t = "no_vat" -> "BrReg"
    [] t = "eu_vat" -> "Vies"

(***************************************************************************)
(* Results of the syntax stage.  A slice out of range aborts the call,     *)
(* which is the outcome Panic.                                             *)
(***************************************************************************)
OkUnit == [tag |-> "Ok", kind |-> "", code |-> ""]

UnsupportedCountryCode(code) ==
  [tag |-> "Err", kind |-> "UnsupportedCountryCode", code |-> code]

InvalidSyntax == [tag |-> "Err", kind |-> "InvalidSyntax", code |-> ""]

Panic == [tag |-> "Panic", kind |-> "", code |-> ""]

NotCalled == [tag |-> "NotCalled", kind |-> "", code |-> ""]

\* HashMap::insert of every entry of n into m: an existing key is overwritten
InsertAll(m, n) ==
  [c \in (DOMAIN m) \cup (DOMAIN n) |-> IF c \in DOMAIN n THEN n[c] ELSE m[c]]

RECURSIVE BuildSyntax(_, _)
BuildSyntax(m, types) ==
  IF Len(types) = 0 THEN m
  ELSE BuildSyntax(InsertAll(m, syntax_map(Head(types))), Tail(types))

SYNTAX == BuildSyntax(<<>>, <<"gb_vat", "ch_vat", "no_vat", "eu_vat">>)

\* &value[0..2] and &value[2..]
tax_country_code_of(value) == SubSeq(value, 1, 2)


\* &value[2..] taken one byte early
local_value_of_early(value) == SubSeq(value, 2, Len(value))

local_value_of(value) == SubSeq(value, 3, Len(value))


\* TaxId::validate_syntax with the registry miss answered as a syntax failure
TaxId_validate_syntax_miss_as_invalid(value) ==
  IF Len(value) < 2 THEN Panic
  ELSE LET tax_country_code == SubSeq(value, 1, 2) IN
       IF tax_country_code \notin DOMAIN SYNTAX
       THEN InvalidSyntax
       ELSE IF is_match(SYNTAX[tax_country_code], value)
            THEN OkUnit
            ELSE InvalidSyntax

\* TaxId::validate_syntax matching the pattern against the part after the prefix
TaxId_validate_syntax_local_part(value) ==
  IF Len(value) < 2 THEN Panic
  ELSE LET tax_country_code == SubSeq(value, 1, 2) IN
       IF tax_country_code \notin DOMAIN SYNTAX
       THEN UnsupportedCountryCode(tax_country_code)
       ELSE IF is_match(SYNTAX[tax_country_code], SubSeq(value, 3, Len(value)))
            THEN OkUnit
            ELSE InvalidSyntax

TaxId_validate_syntax(value) ==
  IF Len(value) < 2 THEN Panic
  ELSE LET tax_country_code == tax_country_code_of(value) IN
       IF tax_country_code \notin DOMAIN SYNTAX
       THEN UnsupportedCountryCode(tax_country_code)
       ELSE IF is_match(SYNTAX[tax_country_code], value)
            THEN OkUnit
            ELSE InvalidSyntax

\* the variant's validate_syntax without the match against the pattern
TaxIdType_validate_syntax_prefix_only(t, value) ==
  IF Len(value) < 2 THEN Panic
  ELSE LET tax_country_code == tax_country_code_of(value) IN
       IF tax_country_code \notin DOMAIN syntax_map(t)
       THEN UnsupportedCountryCode(tax_country_code)
       ELSE OkUnit

TaxIdType_validate_syntax(t, value) ==
  IF Len(value) < 2 THEN Panic
  ELSE LET tax_country_code == tax_country_code_of(value) IN
       IF tax_country_code \notin DOMAIN syntax_map(t)
       THEN UnsupportedCountryCode(tax_country_code)
       ELSE IF is_match(syntax_map(t)[tax_country_code], value)
            THEN OkUnit
            ELSE InvalidSyntax

NoType == "none"


\* the dispatch with Northern Ireland sent to the GB variant
id_type_for_xi_as_gb(tax_country_code) ==
  CASE tax_country_code \in {"GB", "XI"} -> "gb_vat"
    [] tax_country_code = "CH" -> "ch_vat"
    [] tax_country_code = "NO" -> "no_vat"
    [] OTHER -> IF Contains(COUNTRIES, tax_country_code) THEN "eu_vat" ELSE NoType

\* the match on the prefix in TaxId::new
id_type_for(tax_country_code) ==
  CASE tax_country_code = "GB" -> "gb_vat"
    [] tax_country_code = "CH" -> "ch_vat"
    [] tax_country_code = "NO" -> "no_vat"
    [] OTHER -> IF Contains(COUNTRIES, tax_country_code) THEN "eu_vat" ELSE NoType

NoTaxId ==
  [value |-> "", country_code |-> "", tax_country_code |-> "", local_value |-> "",
   id_type |-> NoType]

NewResult(tag, kind, code, tax_id) ==
  [tag |-> tag, kind |-> kind, code |-> code, tax_id |-> tax_id]


\* TaxId::new without the call of validate_syntax
TaxId_new_unchecked(value) ==
  IF Len(value) < 2 THEN NewResult("Panic", "", "", NoTaxId)
  ELSE LET tax_country_code == tax_country_code_of(value)
           id_type == id_type_for(tax_country_code)
       IN IF id_type = NoType
          THEN NewResult("Err", "UnsupportedCountryCode", tax_country_code, NoTaxId)
          ELSE NewResult("Ok", "", "",
                 [value |-> value,
                  country_code |-> country_code_from_tax_country(id_type, tax_country_code),
                  tax_country_code |-> tax_country_code,
                  local_value |-> local_value_of(value),
                  id_type |-> id_type])

TaxId_new(value) ==
  IF Len(value) < 2 THEN NewResult("Panic", "", "", NoTaxId)
  ELSE LET tax_country_code == tax_country_code_of(value)
           local_value == local_value_of(value)
           id_type == id_type_for(tax_country_code)
       IN IF id_type = NoType
          THEN NewResult("Err", "UnsupportedCountryCode", tax_country_code, NoTaxId)
          ELSE LET checked == TaxIdType_validate_syntax(id_type, value) IN
               IF checked.tag # "Ok"
               THEN NewResult(checked.tag, checked.kind, checked.code, NoTaxId)
               ELSE NewResult("Ok", "", "",
                      [value |-> value,
                       country_code |-> country_code_from_tax_country(id_type, tax_country_code),
                       tax_country_code |-> tax_country_code,
                       local_value |-> local_value,
                       id_type |-> id_type])

(***************************************************************************)
(* Inputs of the syntax stage: the ids the crate's tests use, ids with a   *)
(* prefix no variant governs, and every string MaxEdits single-character   *)
(* edits away from a valid sample.                                         *)
(***************************************************************************)
MaxEdits == 1

ValidSamples ==
  {"ATU12345678", "BE0123456789", "BG123456789", "BG1234567890", "CY12345678A",
   "CZ12345678", "CZ1234567890", "DE123456789", "DK12345678", "EE101234567",
   "EL123456789", "ESX12345678", "ES12345678Z", "ESX1234567Z", "FI12345678",
   "FR12345678901", "FRX1234567890", "HR12345678901", "HU12345678", "IE1234567A",
   "IE1A23456A", "IE1234567AA", "IT12345678901", "LT999999919", "LT999999999919",
   "LU12345678", "LV12345678901", "MT12345678", "NL123456789B01", "PL1234567890",
   "PT123456789", "RO99999999", "RO999999999", "SE123456789101", "SI12345678",
   "SK1234567890", "XI123456789", "XI591819014", "XIHA123", "XIGD123",
   "GB591819014", "GB123456789101", "GBHA123", "GBGD123",
   "CHE123456789", "CHE-778.887.921", "CHE-778.887.921 MWST", "CHE778887921 TVA",
   "CHE-778.887.921 IVA",
   "NO123456789MVA", "NO123456789"}

TestInvalidSamples ==
  {"SE12", "GB12", "CHE12", "NO12",
   "AT12345678", "ATU1234567A", "BE01234567890", "CY12345678AA", "ES12345678",
   "IE12345678A", "LT12345678", "RO12345678901", "SE12345678900", "XI12345678A",
   "GB12345678", "GBHA1234", "CHE-778.887.921MWST", "CHE-34.887.921 MWST",
   "CHE-778.887.9211", "NO123456789 MVA", "NO123456789XXX", "NO123456789MVA1"}

UnsupportedSamples ==
  {"XX123456789", "GR123456789", "UK591819014", "US12", "se123456789101",
   "  SE123456789101", "12SE", "XX", "G", ""}

EditChars == {"0", "A", " "}

Edits(s) ==
  {SubSeq(s, 1, i - 1) \o c \o SubSeq(s, i + 1, Len(s)) : i \in 1 .. Len(s), c \in EditChars}
  \cup {SubSeq(s, 1, i - 1) \o SubSeq(s, i + 1, Len(s)) : i \in 1 .. Len(s)}
  \cup {s \o c : c \in EditChars}

RECURSIVE EditedUpTo(_, _)
EditedUpTo(S, n) ==
  IF n = 0 THEN S ELSE EditedUpTo(S \cup UNION {Edits(s) : s \in S}, n - 1)

SyntaxInputs(n) ==
  EditedUpTo(ValidSamples, n) \cup TestInvalidSamples \cup UnsupportedSamples

(***************************************************************************)
(* Values exchanged with the providers.  Option<String> is a record with a *)
(* flag; a serde_json::Value is a record tagged with its JSON type.        *)
(***************************************************************************)
None == [some |-> FALSE, v |-> ""]

Some(v) == [some |-> TRUE, v |-> v]

JNull == [j |-> "null"]

JBool(b) == [j |-> "bool", v |-> b]

JNum(n) == [j |-> "num", v |-> n]

JStr(str) == [j |-> "str", v |-> str]

JArr(seq) == [j |-> "arr", v |-> seq]

JObj(f) == [j |-> "obj", v |-> f]

EmptyMap == <<>>

\* HashMap::insert / Map::insert
Insert(m, k, v) == [x \in (DOMAIN m) \cup {k} |-> IF x = k THEN v ELSE m[x]]

\* hash.get(key).and_then(|x| x.as_deref())
GetDeref(hash, key) == IF key \in DOMAIN hash THEN hash[key] ELSE None

\* json!(hash) for a HashMap<String, Option<String>>
JsonOfHash(hash) ==
  JObj([k \in DOMAIN hash |-> IF hash[k].some THEN JStr(hash[k].v) ELSE JNull])

\* a response body: what the XML and the JSON decoder make of its text
XmlBody(nodes) == [kind |-> "xml", content |-> nodes]

JsonBody(value) == [kind |-> "json", content |-> value]

GarbageBody == [kind |-> "garbage", content |-> <<>>]

VerificationResponse(status, body) == [status |-> status, body |-> body]

\* roxmltree::Document::parse(body)
XmlParse(body) ==
  IF body.kind = "xml" THEN [ok |-> TRUE, doc |-> body.content]
  ELSE [ok |-> FALSE, doc |-> <<>>]

\* serde_json::from_str(body)
JsonParse(body) ==
  IF body.kind = "json" THEN [ok |-> TRUE, value |-> body.content]
  ELSE [ok |-> FALSE, value |-> JNull]

\* an element of the document, in the order of Document::descendants;
\* text is Node::text(): the text of the first child, if that is a text node
El(tag, text) == [tag |-> tag, text |-> text]

\* str::trim().is_empty()
IsBlank(str) == \A k \in 1 .. Len(str) : SubSeq(str, k, k) \in Whitespace

(***************************************************************************)
(* Verification and the results of parse_response and verify.              *)
(***************************************************************************)
NoReason == "none"

Verified == [s |-> "Verified", reason |-> NoReason]

Unverified == [s |-> "Unverified", reason |-> NoReason]

Unavailable(reason) == [s |-> "Unavailable", reason |-> reason]

NoStatus == [s |-> "none", reason |-> NoReason]

VResult(tag, kind, msg, code, status, data) ==
  [tag |-> tag, kind |-> kind, msg |-> msg, code |-> code, status |-> status, data |-> data]

\* Ok(Verification::new(status, data))
OkVerification(status, data) == VResult("Ok", "", "", 0, status, data)

VerificationError(kind, msg, code) == VResult("Err", kind, msg, code, NoStatus, JNull)

\* an unwrap() on None aborts the call
VPanic == VResult("Panic", "", "", 0, NoStatus, JNull)

NotParsed == VResult("NotCalled", "", "", 0, NoStatus, JNull)

(***************************************************************************)
(* BFS (Switzerland).                                                      *)
(***************************************************************************)
BFS_tags_to_exclude ==
  {"Body", "Envelope", "Fault", "businessFault", "detail", "ValidateVatNumberResponse"}

RECURSIVE BFS_xml_to_hash_from(_, _)
BFS_xml_to_hash_from(hash, nodes) ==
  IF Len(nodes) = 0 THEN hash
  ELSE LET node == Head(nodes) IN
       IF IsBlank(node.tag) \/ node.tag \in BFS_tags_to_exclude
       THEN BFS_xml_to_hash_from(hash, Tail(nodes))
       ELSE IF node.text.some
            THEN BFS_xml_to_hash_from(Insert(hash, node.tag, Some(node.text.v)), Tail(nodes))
            ELSE BFS_xml_to_hash_from(hash, Tail(nodes))

BFS_xml_to_hash(doc) == BFS_xml_to_hash_from(EmptyMap, doc)


\* the fault match with a default arm instead of the error
BFS_fault_status_default(fault) ==
  CASE fault = "Data_validation_failed" -> OkVerification(Unverified, JNull)
    [] OTHER -> OkVerification(Unavailable(NoReason), JNull)

BFS_fault_status(fault) ==
  CASE fault = "Data_validation_failed" -> OkVerification(Unverified, JNull)
    [] fault = "Request_limit_exceeded" -> OkVerification(Unavailable(NoReason), JNull)
    [] OTHER -> VerificationError("UnexpectedResponse",
                                  "Unexpected faultstring: " \o fault, 0)


\* the result match with a missing result read as "false"
BFS_result_status_missing_false(result) ==
  IF result.some /\ result.v = "true" THEN OkVerification(Verified, JNull)
  ELSE IF ~result.some \/ result.v = "false" THEN OkVerification(Unverified, JNull)
  ELSE VerificationError("UnexpectedResponse",
                         "ValidateVatNumberResult should be 'true' or 'false'", 0)

BFS_result_status(result) ==
  IF result.some /\ result.v = "true" THEN OkVerification(Verified, JNull)
  ELSE IF result.some /\ result.v = "false" THEN OkVerification(Unverified, JNull)
  ELSE VerificationError("UnexpectedResponse",
                         "ValidateVatNumberResult should be 'true' or 'false'", 0)

\* parse_response with the result consulted before the fault string
BFS_parse_response_result_first(response) ==
  LET parsed == XmlParse(response.body) IN
  IF ~parsed.ok THEN VerificationError("XmlParsingError", "", 0)
  ELSE LET hash == BFS_xml_to_hash(parsed.doc)
           fault_string == GetDeref(hash, "faultstring")
           result == GetDeref(hash, "ValidateVatNumberResult")
           decided == IF fault_string.some /\ result # Some("true")
                      THEN BFS_fault_status(fault_string.v)
                      ELSE BFS_result_status(result)
       IN IF decided.tag = "Ok"
          THEN OkVerification(decided.status, JsonOfHash(hash))
          ELSE decided

BFS_parse_response(response) ==
  LET parsed == XmlParse(response.body) IN
  IF ~parsed.ok THEN VerificationError("XmlParsingError", "", 0)
  ELSE LET hash == BFS_xml_to_hash(parsed.doc)
           fault_string == GetDeref(hash, "faultstring")
           decided == IF fault_string.some
                      THEN BFS_fault_status(fault_string.v)
                      ELSE BFS_result_status(GetDeref(hash, "ValidateVatNumberResult"))
       IN IF decided.tag = "Ok"
          THEN OkVerification(decided.status, JsonOfHash(hash))
          ELSE decided

(***************************************************************************)
(* VIES (EU).                                                              *)
(***************************************************************************)
FAULT_MAP ==
     "SERVICE_UNAVAILABLE" :> "ServiceUnavailable"
  @@ "MS_UNAVAILABLE" :> "ServiceUnavailable"
  @@ "TIMEOUT" :> "Timeout"
  @@ "VAT_BLOCKED" :> "Block"
  @@ "IP_BLOCKED" :> "Block"
  @@ "GLOBAL_MAX_CONCURRENT_REQ" :> "RateLimit"
  @@ "GLOBAL_MAX_CONCURRENT_REQ_TIME" :> "RateLimit"
  @@ "MS_MAX_CONCURRENT_REQ" :> "RateLimit"
  @@ "MS_MAX_CONCURRENT_REQ_TIME" :> "RateLimit"

Vies_tags_to_exclude == {"Body", "Envelope", "Fault"}

\* the flattening without the "---" convention
RECURSIVE Vies_xml_to_hash_from_literal(_, _)
Vies_xml_to_hash_from_literal(hash, nodes) ==
  IF Len(nodes) = 0 THEN hash
  ELSE LET node == Head(nodes) IN
       IF IsBlank(node.tag) \/ node.tag \in Vies_tags_to_exclude
       THEN Vies_xml_to_hash_from_literal(hash, Tail(nodes))
       ELSE IF node.text.some
            THEN Vies_xml_to_hash_from_literal(Insert(hash, node.tag, Some(node.text.v)),
                                               Tail(nodes))
            ELSE Vies_xml_to_hash_from_literal(hash, Tail(nodes))

RECURSIVE Vies_xml_to_hash_from(_, _)
Vies_xml_to_hash_from(hash, nodes) ==
  IF Len(nodes) = 0 THEN hash
  ELSE LET node == Head(nodes) IN
       IF IsBlank(node.tag) \/ node.tag \in Vies_tags_to_exclude
       THEN Vies_xml_to_hash_from(hash, Tail(nodes))
       ELSE IF node.text.some
            THEN IF node.text.v = "---"
                 THEN Vies_xml_to_hash_from(Insert(hash, node.tag, None), Tail(nodes))
                 ELSE Vies_xml_to_hash_from(Insert(hash, node.tag, Some(node.text.v)),
                                            Tail(nodes))
            ELSE Vies_xml_to_hash_from(hash, Tail(nodes))

Vies_xml_to_hash(doc) == Vies_xml_to_hash_from(EmptyMap, doc)

\* the fault lookup with a default reason instead of the error
Vies_fault_status_default(fault) ==
  IF fault \in DOMAIN FAULT_MAP
  THEN OkVerification(Unavailable(FAULT_MAP[fault]), JNull)
  ELSE OkVerification(Unavailable("ServiceUnavailable"), JNull)

Vies_fault_status(fault) ==
  IF fault \in DOMAIN FAULT_MAP
  THEN OkVerification(Unavailable(FAULT_MAP[fault]), JNull)
  ELSE VerificationError("UnexpectedResponse", "Unknown fault code: " \o fault, 0)

\* the match on the valid field with one message for both errors
Vies_valid_status_one_message(validity_value) ==
  IF validity_value.some /\ validity_value.v = "true" THEN OkVerification(Verified, JNull)
  ELSE IF validity_value.some /\ validity_value.v = "false"
       THEN OkVerification(Unverified, JNull)
  ELSE VerificationError("UnexpectedResponse",
                         "Missing valid field in VIES response", 0)

Vies_valid_status(validity_value) ==
  IF validity_value.some /\ validity_value.v = "true" THEN OkVerification(Verified, JNull)
  ELSE IF validity_value.some /\ validity_value.v = "false"
       THEN OkVerification(Unverified, JNull)
  ELSE IF ~validity_value.some
       THEN VerificationError("UnexpectedResponse",
                              "Missing valid field in VIES response", 0)
  ELSE VerificationError("UnexpectedResponse",
                         "Invalid value for valid field in VIES response", 0)

\* parse_response deciding on the presence of the faultstring key
Vies_parse_response_fault_key(response) ==
  LET parsed == XmlParse(response.body) IN
  IF ~parsed.ok THEN VerificationError("XmlParsingError", "", 0)
  ELSE LET hash == Vies_xml_to_hash(parsed.doc)
           decided == IF "faultstring" \in DOMAIN hash
                      THEN Vies_fault_status(hash["faultstring"].v)
                      ELSE Vies_valid_status(GetDeref(hash, "valid"))
       IN IF decided.tag = "Ok"
          THEN OkVerification(decided.status, JsonOfHash(hash))
          ELSE decided

Vies_parse_response(response) ==
  LET parsed == XmlParse(response.body) IN
  IF ~parsed.ok THEN VerificationError("XmlParsingError", "", 0)
  ELSE LET hash == Vies_xml_to_hash(parsed.doc)
           fault_string == GetDeref(hash, "faultstring")
           decided == IF fault_string.some
                      THEN Vies_fault_status(fault_string.v)
                      ELSE Vies_valid_status(GetDeref(hash, "valid"))
       IN IF decided.tag = "Ok"
          THEN OkVerification(decided.status, JsonOfHash(hash))
          ELSE decided

(***************************************************************************)
(* HMRC (United Kingdom).                                                  *)
(***************************************************************************)
\* hash.get("code").and_then(|v| v.as_str())
Hmrc_fault(hash) ==
  IF "code" \in DOMAIN hash /\ hash["code"].j = "str" THEN Some(hash["code"].v) ELSE None

\* json!(hash.get("target"))
\* the payload of a verified response as the whole object
Hmrc_target_whole(hash) == JObj(hash)

Hmrc_target(hash) == IF "target" \in DOMAIN hash THEN hash["target"] ELSE JNull

Hmrc_code_status(fault_code) ==
  IF fault_code = "NOT_FOUND" THEN Unverified ELSE Unavailable(NoReason)

\* parse_response with status 404 taken for "not found" without reading the body
Hmrc_parse_response_by_status(response) ==
  IF response.status = 404 THEN OkVerification(Unverified, JObj(EmptyMap))
  ELSE LET parsed == JsonParse(response.body) IN
       IF ~parsed.ok THEN VerificationError("JsonParsingError", "", 0)
       ELSE IF parsed.value.j # "obj" THEN VPanic
       ELSE LET hash == parsed.value.v
                fault == Hmrc_fault(hash)
            IN IF ~fault.some
               THEN OkVerification(Verified, Hmrc_target(hash))
               ELSE OkVerification(Hmrc_code_status(fault.v), JObj(hash))

Hmrc_parse_response(response) ==
  LET parsed == JsonParse(response.body) IN
  IF ~parsed.ok THEN VerificationError("JsonParsingError", "", 0)
  ELSE IF parsed.value.j # "obj" THEN VPanic
  ELSE LET hash == parsed.value.v
           fault == Hmrc_fault(hash)
       IN IF ~fault.some
          THEN OkVerification(Verified, Hmrc_target(hash))
          ELSE OkVerification(Hmrc_code_status(fault.v), JObj(hash))

(***************************************************************************)
(* BRREG (Norway).                                                         *)
(***************************************************************************)
\* translations.toml is read at build time; these are its entries, as the
\* adapter's tests show them, for the keys the responses below use
TRANSLATIONS ==
     "organisasjonsnummer" :> "organizationNumber"
  @@ "navn" :> "name"
  @@ "registrertIMvaregisteret" :> "registeredInVatRegister"
  @@ "konkurs" :> "bankruptcy"
  @@ "underAvvikling" :> "underLiquidation"
  @@ "underTvangsavviklingEllerTvangsopplosning" :> "underForcedLiquidation"
  @@ "forretningsadresse" :> "businessAddress"
  @@ "landkode" :> "countryCode"

\* the keys the model's JSON objects use, in the order Map::iter visits them
KeyOrder ==
  <<"bankruptcy", "businessAddress", "code", "countryCode", "error",
    "forretningsadresse", "konkurs", "landkode", "message", "name", "navn",
    "organisasjonsnummer", "organizationNumber", "processingDate", "reason",
    "registeredInVatRegister", "registrertIMvaregisteret", "slettedato", "status",
    "target", "underAvvikling", "underForcedLiquidation", "underLiquidation",
    "underTvangsavviklingEllerTvangsopplosning", "vatNumber">>

KeysInOrder(map) == SelectSeq(KeyOrder, LAMBDA k : k \in DOMAIN map)

RECURSIVE translate_keys(_)
RECURSIVE translate_entries(_, _, _)
translate_entries(new_map, keys, map) ==
  IF Len(keys) = 0 THEN new_map
  ELSE LET key == Head(keys)
           new_key == IF key \in DOMAIN TRANSLATIONS THEN TRANSLATIONS[key] ELSE key
       IN translate_entries(Insert(new_map, new_key, translate_keys(map[key])),
                            Tail(keys), map)

translate_keys(obj) ==
  CASE obj.j = "obj" -> JObj(translate_entries(EmptyMap, KeysInOrder(obj.v), obj.v))
    [] obj.j = "arr" -> JArr([i \in DOMAIN obj.v |-> translate_keys(obj.v[i])])
    [] OTHER -> obj

REQUIREMENTS_TO_BE_VALID ==
     "registeredInVatRegister" :> TRUE
  @@ "bankruptcy" :> FALSE
  @@ "underLiquidation" :> FALSE
  @@ "underForcedLiquidation" :> FALSE

\* the orders in which HashMap::iter may visit the requirements
RequirementOrders ==
  LET n == Cardinality(DOMAIN REQUIREMENTS_TO_BE_VALID) IN
  {o \in [1 .. n -> DOMAIN REQUIREMENTS_TO_BE_VALID] :
     \A i, k \in 1 .. n : i # k => o[i] # o[k]}

\* the loop of BrReg::qualify over the requirements in the order given;
\* the result is a status, or VPanic when as_bool().unwrap() meets a non-boolean
RECURSIVE qualify(_, _)
qualify(hash, order) ==
  IF Len(order) = 0 THEN OkVerification(Verified, JNull)
  ELSE LET key == Head(order) IN
       IF key \notin DOMAIN hash THEN OkVerification(Unverified, JNull)
       ELSE IF hash[key].j # "bool" THEN VPanic
       ELSE IF hash[key].v = REQUIREMENTS_TO_BE_VALID[key]
            THEN qualify(hash, Tail(order))
            ELSE OkVerification(Unverified, JNull)

\* parse_response with status 410 decoded like status 200
BrReg_parse_response_gone_decoded(response, order) ==
  IF response.status \in {404} THEN OkVerification(Unverified, JObj(EmptyMap))
  ELSE IF response.status \in {200, 410, 500}
  THEN LET parsed == JsonParse(response.body) IN
       IF ~parsed.ok THEN VerificationError("JsonParsingError", "", 0)
       ELSE LET v == translate_keys(parsed.value) IN
            IF v.j # "obj" THEN VPanic
            ELSE IF response.status = 500
                 THEN OkVerification(Unavailable("ServiceUnavailable"), v)
                 ELSE LET qualified == qualify(v.v, order) IN
                      IF qualified.tag = "Ok"
                      THEN OkVerification(qualified.status, v)
                      ELSE qualified
  ELSE VerificationError("UnexpectedStatusCode", "", response.status)

\* parse_response with the qualification rule applied to status 500
BrReg_parse_response_500_qualified(response, order) ==
  IF response.status \in {404, 410} THEN OkVerification(Unverified, JObj(EmptyMap))
  ELSE IF response.status \in {200, 500}
  THEN LET parsed == JsonParse(response.body) IN
       IF ~parsed.ok THEN VerificationError("JsonParsingError", "", 0)
       ELSE LET v == translate_keys(parsed.value) IN
            IF v.j # "obj" THEN VPanic
            ELSE IF response.status = 500 /\ qualify(v.v, order) # OkVerification(Verified, JNull)
                 THEN OkVerification(Unavailable("ServiceUnavailable"), v)
                 ELSE LET qualified == qualify(v.v, order) IN
                      IF qualified.tag = "Ok"
                      THEN OkVerification(qualified.status, v)
                      ELSE qualified
  ELSE VerificationError("UnexpectedStatusCode", "", response.status)

\* parse_response with every status from 500 on handled like status 500
BrReg_parse_response_5xx_unavailable(response, order) ==
  IF response.status \in {404, 410} THEN OkVerification(Unverified, JObj(EmptyMap))
  ELSE IF response.status \in {200} \cup (500 .. 599)
  THEN LET parsed == JsonParse(response.body) IN
       IF ~parsed.ok THEN VerificationError("JsonParsingError", "", 0)
       ELSE LET v == translate_keys(parsed.value) IN
            IF v.j # "obj" THEN VPanic
            ELSE IF response.status >= 500
                 THEN OkVerification(Unavailable("ServiceUnavailable"), v)
                 ELSE LET qualified == qualify(v.v, order) IN
                      IF qualified.tag = "Ok"
                      THEN OkVerification(qualified.status, v)
                      ELSE qualified
  ELSE VerificationError("UnexpectedStatusCode", "", response.status)

BrReg_parse_response(response, order) ==
  IF response.status \in {404, 410} THEN OkVerification(Unverified, JObj(EmptyMap))
  ELSE IF response.status \in {200, 500}
  THEN LET parsed == JsonParse(response.body) IN
       IF ~parsed.ok THEN VerificationError("JsonParsingError", "", 0)
       ELSE LET v == translate_keys(parsed.value) IN
            IF v.j # "obj" THEN VPanic
            ELSE IF response.status = 500
                 THEN OkVerification(Unavailable("ServiceUnavailable"), v)
                 ELSE LET qualified == qualify(v.v, order) IN
                      IF qualified.tag = "Ok"
                      THEN OkVerification(qualified.status, v)
                      ELSE qualified
  ELSE VerificationError("UnexpectedStatusCode", "", response.status)

Verifiers == {"BFS", "Vies", "Hmrc", "BrReg"}

\* Verifier::parse_response of the adapter named
parse_response(v, response, order) ==
  CASE v = "BFS" -> BFS_parse_response(response)
    [] v = "Vies" -> Vies_parse_response(response)
    [] v = "Hmrc" -> Hmrc_parse_response(response)
    [] v = "BrReg" -> BrReg_parse_response(response, order)

(***************************************************************************)
(* Responses a provider can send.  An element of a SOAP body is absent,    *)
(* present without text, or present with a text.                           *)
(***************************************************************************)
Absent == [present |-> FALSE, text |-> None]

Present(text) == [present |-> TRUE, text |-> text]

ElemChoices(texts) == {Absent, Present(None)} \cup {Present(Some(t)) : t \in texts}

Indent == "\n    "

ElemNodes(tag, choice) == IF choice.present THEN <<El(tag, choice.text)>> ELSE <<>>

BfsFaultTexts ==
  {"Data_validation_failed", "Request_limit_exceeded", "Unexpected_fault_string",
   "SERVICE_UNAVAILABLE", "data_validation_failed", "Request_limit_exceeded ", "---",
   "true"}

BfsResultTexts == {"true", "false", "unexpected value", "True", " true", "---", "1"}

BfsDoc(fault, result, second) ==
  <<El("", None), El("Envelope", Some(Indent)), El("Body", Some(Indent))>>
  \o (IF fault.present
      THEN <<El("Fault", Some(Indent)), El("faultcode", Some("s:Client"))>>
           \o ElemNodes("faultstring", fault)
           \o <<El("detail", Some(Indent)), El("businessFault", Some(Indent)),
                El("operation", Some("ValidateVatNumber"))>>
      ELSE <<>>)
  \o (IF result.present
      THEN <<El("ValidateVatNumberResponse", Some(Indent))>>
           \o ElemNodes("ValidateVatNumberResult", result)
      ELSE <<>>)
  \o ElemNodes("faultstring", second)

BfsBodies ==
  {XmlBody(BfsDoc(f, r, Absent)) :
     f \in ElemChoices(BfsFaultTexts), r \in ElemChoices(BfsResultTexts)}
  \cup {XmlBody(BfsDoc(f, Present(Some("true")), d)) :
          f \in {Absent, Present(Some("Unexpected_fault_string"))},
          d \in {Present(None), Present(Some("Request_limit_exceeded"))}}
  \cup {GarbageBody, JsonBody(JObj(EmptyMap))}

ViesFaultTexts ==
  (DOMAIN FAULT_MAP)
  \cup {"INVALID_INPUT", "INVALID_REQUESTER_INFO", "Request_limit_exceeded", "timeout", "---"}

ViesValidTexts == {"true", "false", "invalid value", "TRUE", "---", "0"}

ViesDoc(fault, valid, address) ==
  <<El("", None), El("Envelope", Some(Indent)), El("Header", None),
    El("Body", Some(Indent))>>
  \o (IF fault.present
      THEN <<El("Fault", Some(Indent)), El("faultcode", Some("env:Server"))>>
           \o ElemNodes("faultstring", fault)
      ELSE <<>>)
  \o (IF valid.present \/ ~fault.present
      THEN <<El("checkVatResponse", Some(Indent)), El("countryCode", Some("SE"))>>
           \o ElemNodes("valid", valid)
           \o <<El("name", Some("Test Company")), El("address", Some(address))>>
      ELSE <<>>)

ViesBodies ==
  {XmlBody(ViesDoc(f, v, a)) :
     f \in ElemChoices(ViesFaultTexts), v \in ElemChoices(ViesValidTexts),
     a \in {"---", "Test Address"}}
  \cup {XmlBody(ViesDoc(Absent, Present(Some("true")), a) \o <<El(t, Some(b))>>) :
          a \in {"---", "Test Address"}, t \in {"address", "Fault"},
          b \in {"---", "Test Address"}}
  \cup {GarbageBody, JsonBody(JObj(EmptyMap))}

\* a JSON object with the given optional members
Member(key, choice) == IF choice.present THEN key :> choice.text ELSE EmptyMap

JChoices(values) == {Absent} \cup {Present(x) : x \in values}

HmrcTarget == JObj("name" :> JStr("VIRGIN ATLANTIC AIRWAYS LTD") @@ "vatNumber" :> JStr("425216184"))

HmrcCodes ==
  {JStr("NOT_FOUND"), JStr("SERVER_ERROR"), JStr("INVALID_REQUEST"), JStr("not_found"),
   JStr("MESSAGE_THROTTLED_OUT"), JNum(500), JNull, JBool(TRUE)}

NonObjects == {JNull, JStr("Internal Server Error"), JArr(<<>>), JNum(0), JBool(FALSE)}

HmrcBodies ==
  {JsonBody(JObj(Member("code", c) @@ Member("target", t) @@ Member("reason", r))) :
     c \in JChoices(HmrcCodes), t \in JChoices({HmrcTarget, JNull}),
     r \in JChoices({JStr("targetVrn does not match a registered company")})}
  \cup {JsonBody(x) : x \in NonObjects}
  \cup {GarbageBody, XmlBody(<<>>)}

BrRegFlags == {JBool(TRUE), JBool(FALSE), JStr("true"), JNull}

BrRegEntity(registered, bankrupt, liquidation, forced) ==
  JObj("organisasjonsnummer" :> JStr("123456789")
       @@ Member("registrertIMvaregisteret", registered)
       @@ Member("konkurs", bankrupt)
       @@ Member("underAvvikling", liquidation)
       @@ Member("underTvangsavviklingEllerTvangsopplosning", forced))

BrRegError ==
  JObj("status" :> JNum(500) @@ "error" :> JStr("Internal Server Error")
       @@ "message" :> JStr("Internal Server Error"))

BrRegTranslated ==
  JObj("registeredInVatRegister" :> JBool(TRUE) @@ "bankruptcy" :> JBool(FALSE)
       @@ "underLiquidation" :> JBool(FALSE) @@ "underForcedLiquidation" :> JBool(FALSE))

BrRegNested ==
  JObj("registrertIMvaregisteret" :> JBool(TRUE) @@ "konkurs" :> JBool(FALSE)
       @@ "underAvvikling" :> JBool(FALSE)
       @@ "underTvangsavviklingEllerTvangsopplosning" :> JBool(FALSE)
       @@ "forretningsadresse" :> JObj("landkode" :> JStr("NO"))
       @@ "message" :> JArr(<<JObj("navn" :> JStr("Test Company AS")), JStr("navn")>>))

BrRegColliding ==
  JObj("registrertIMvaregisteret" :> JBool(TRUE) @@ "registeredInVatRegister" :> JBool(FALSE)
       @@ "bankruptcy" :> JBool(TRUE) @@ "konkurs" :> JBool(FALSE)
       @@ "underAvvikling" :> JBool(FALSE)
       @@ "underTvangsavviklingEllerTvangsopplosning" :> JBool(FALSE))

BrRegBodies ==
  {JsonBody(BrRegEntity(a, b, c, d)) :
     a \in JChoices(BrRegFlags), b \in JChoices({JBool(TRUE), JBool(FALSE), JStr("false")}),
     c \in JChoices({JBool(TRUE), JBool(FALSE)}), d \in JChoices({JBool(TRUE), JBool(FALSE)})}
  \cup {JsonBody(BrRegError), JsonBody(BrRegTranslated), JsonBody(BrRegNested),
        JsonBody(BrRegColliding), JsonBody(JObj(EmptyMap))}
  \cup {JsonBody(x) : x \in NonObjects}
  \cup {GarbageBody, XmlBody(<<>>)}

Bodies(v) ==
  CASE v = "BFS" -> BfsBodies
    [] v = "Vies" -> ViesBodies
    [] v = "Hmrc" -> HmrcBodies
    [] v = "BrReg" -> BrRegBodies

Statuses(v) == IF v \in {"BFS", "Vies"} THEN {200, 500} ELSE {200, 204, 404, 410, 500, 503}

ParseInputs(v) == {VerificationResponse(st, b) : st \in Statuses(v), b \in Bodies(v)}

(***************************************************************************)
(* Requests.  make_request builds the request of its adapter from the tax  *)
(* id; the envelopes are the crate's, without their indentation.           *)
(***************************************************************************)
\* str::replace(from, to): every non-overlapping occurrence, left to right
\* str::find(from): the offset after which the first occurrence starts, or -1
Find(str, from) ==
  LET P == {i \in 0 .. (Len(str) - Len(from)) : SubSeq(str, i + 1, i + Len(from)) = from}
  IN IF P = {} THEN -1 ELSE CHOOSE i \in P : \A k \in P : i <= k

RECURSIVE Replace(_, _, _)
Replace(str, from, to) ==
  LET i == Find(str, from) IN
  IF i < 0 THEN str
  ELSE SubSeq(str, 1, i) \o to
       \o Replace(SubSeq(str, i + Len(from) + 1, Len(str)), from, to)

BFS_URI == "https://www.uid-wse-a.admin.ch/V5.0/PublicServices.svc"

BFS_ENVELOPE ==
  "<soapenv:Envelope><soapenv:Header/><soapenv:Body><uid:ValidateVatNumber>"
  \o "<uid:vatNumber>{value}</uid:vatNumber>"
  \o "</uid:ValidateVatNumber></soapenv:Body></soapenv:Envelope>"

Vies_URI == "http://ec.europa.eu/taxation_customs/vies/services/checkVatService"

Vies_ENVELOPE ==
  "<soapenv:Envelope><soapenv:Header/><soapenv:Body><checkVat>"
  \o "<countryCode>{country}</countryCode><vatNumber>{number}</vatNumber>"
  \o "</checkVat></soapenv:Body></soapenv:Envelope>"

Hmrc_BASE_URI ==
  "https://api.service.hmrc.gov.uk/organisations/vat/check-vat-number/lookup"

BrReg_BASE_URI == "https://data.brreg.no/enhetsregisteret/api/enheter"

\* the organisation number with the suffix left in place
extract_org_number_with_suffix(tax_id) == tax_id.local_value

\* tax_id.local_value().replace("MVA", "")
extract_org_number(tax_id) == Replace(tax_id.local_value, "MVA", "")

Request(v, method, uri, body) ==
  [verifier |-> v, method |-> method, uri |-> uri, body |-> body]

NoRequest == Request("none", "", "", "")

\* make_request with the BFS envelope filled with the part after the prefix
make_request_local_value(v, tax_id) ==
  CASE v = "BFS" ->
         Request(v, "POST", BFS_URI, Replace(BFS_ENVELOPE, "{value}", tax_id.local_value))
    [] v = "Vies" ->
         Request(v, "POST", Vies_URI,
                 Replace(Replace(Vies_ENVELOPE, "{country}", tax_id.tax_country_code),
                         "{number}", tax_id.local_value))
    [] v = "Hmrc" ->
         Request(v, "GET", Hmrc_BASE_URI \o "/" \o tax_id.local_value, "")
    [] v = "BrReg" ->
         Request(v, "GET", BrReg_BASE_URI \o "/" \o extract_org_number(tax_id), "")

make_request(v, tax_id) ==
  CASE v = "BFS" ->
         Request(v, "POST", BFS_URI, Replace(BFS_ENVELOPE, "{value}", tax_id.value))
    [] v = "Vies" ->
         Request(v, "POST", Vies_URI,
                 Replace(Replace(Vies_ENVELOPE, "{country}", tax_id.tax_country_code),
                         "{number}", tax_id.local_value))
    [] v = "Hmrc" ->
         Request(v, "GET", Hmrc_BASE_URI \o "/" \o tax_id.local_value, "")
    [] v = "BrReg" ->
         Request(v, "GET", BrReg_BASE_URI \o "/" \o extract_org_number(tax_id), "")

\* what send() and text() hand back: a response, or a transport error
OkResponse(response) ==
  [tag |-> "Ok", status |-> response.status, body |-> response.body]

HttpError == [tag |-> "Err", status |-> 0, body |-> GarbageBody]

NoResponse == [tag |-> "none", status |-> 0, body |-> GarbageBody]


\* verify with a retry of make_request after a transport error
after_make_request_retry(response) ==
  IF response.tag = "Err"
  THEN [pc |-> "make_request", result |-> NotParsed]
  ELSE [pc |-> "parse_response", result |-> NotParsed]

\* the ? after make_request in Verifier::verify: an error is returned at once,
\* a response goes on to parse_response
after_make_request(response) ==
  IF response.tag = "Err"
  THEN [pc |-> "done", result |-> VerificationError("HttpError", "", 0)]
  ELSE [pc |-> "parse_response", result |-> NotParsed]

(***************************************************************************)
(* The responses the network hands to a running verify call.               *)
(***************************************************************************)
NetResponses(v) ==
  CASE v = "BFS" ->
         {VerificationResponse(200, XmlBody(BfsDoc(Absent, Present(Some("true")), Absent))),
          VerificationResponse(500, XmlBody(BfsDoc(Present(Some("Unexpected_fault_string")),
                                                   Absent, Absent)))}
    [] v = "Vies" ->
         {VerificationResponse(200, XmlBody(ViesDoc(Present(Some("MS_MAX_CONCURRENT_REQ")),
                                                    Absent, "---"))),
          VerificationResponse(200, XmlBody(ViesDoc(Absent, Absent, "---")))}
    [] v = "Hmrc" ->
         {VerificationResponse(404, JsonBody(JObj("code" :> JStr("NOT_FOUND")))),
          VerificationResponse(503, GarbageBody)}
    [] v = "BrReg" ->
         {VerificationResponse(200, JsonBody(BrRegNested)),
          VerificationResponse(204, GarbageBody)}

NetOutcomes(v) == {HttpError} \cup {OkResponse(r) : r \in NetResponses(v)}

(***************************************************************************)
(* The state before any call.                                              *)
(***************************************************************************)
MaxTaxIds == 1

MaxCalls == 2

TaxIdSlots == 1 .. MaxTaxIds

CallIds == 1 .. MaxCalls

NewInputs ==
  {"SE123456789101", "GB591819014", "CHE-778.887.921 MWST", "NO123456789MVA",
   "SE12", "GB12", "CHE12", "NO12", "XX123456789", "X"}

IdleCall ==
  [pc |-> "idle", tax_id |-> 0, request |-> NoRequest, response |-> NoResponse,
   parsed |-> NoResponse, result |-> NotParsed, n_make |-> 0, n_parse |-> 0]

NoTaxIds == [i \in TaxIdSlots |-> NoTaxId]

NoCalls == [c \in CallIds |-> IdleCall]

NoSyntax == [value |-> "", validated |-> NotCalled, created |-> NewResult("NotCalled", "", "", NoTaxId)]

NoNormalization == [code |-> "", id_type |-> NoType, once |-> "", twice |-> ""]

NoParse == [verifier |-> "none", response |-> VerificationResponse(0, GarbageBody),
            parsed |-> NotParsed]

(***************************************************************************)
(* The syntax stage as a state machine: a caller holds one input string    *)
(* and calls TaxId::validate_syntax and TaxId::new on it.                  *)
(***************************************************************************)
InitSyntax ==
  \E value \in SyntaxInputs(MaxEdits) :
    /\ sx = [value |-> value, validated |-> NotCalled, created |-> NewResult("NotCalled", "", "", NoTaxId)]
    /\ pr = NoParse
    /\ tax_ids = NoTaxIds
    /\ calls = NoCalls
    /\ nz = NoNormalization

CallValidateSyntax ==
  /\ sx.validated.tag = "NotCalled"
  /\ sx' = [sx EXCEPT !.validated = TaxId_validate_syntax(sx.value)]
  /\ UNCHANGED <<tax_ids, calls, pr, nz>>

CallNew ==
  /\ sx.created.tag = "NotCalled"
  /\ sx' = [sx EXCEPT !.created = TaxId_new(sx.value)]
  /\ UNCHANGED <<tax_ids, calls, pr, nz>>

NextSyntax == CallValidateSyntax \/ CallNew

SpecSyntax == InitSyntax /\ [][NextSyntax]_vars

(***************************************************************************)
(* The request stage as a state machine: a caller creates a TaxId from one *)
(* input string, and the verifier of its variant builds the request of a   *)
(* verify call on it.                                                      *)
(***************************************************************************)
CallMakeRequest(c) ==
  /\ sx.created.tag = "Ok"
  /\ \A d \in CallIds : calls[d].pc = "idle"
  /\ LET tax_id == sx.created.tax_id IN
       calls' = [calls EXCEPT ![c] =
                   [IdleCall EXCEPT !.pc = "make_request",
                                    !.request = make_request(verifier(tax_id.id_type), tax_id),
                                    !.n_make = 1]]
  /\ UNCHANGED <<tax_ids, sx, pr, nz>>

NextRequest == CallNew \/ \E c \in CallIds : CallMakeRequest(c)

SpecRequest == InitSyntax /\ [][NextRequest]_vars

(***************************************************************************)
(* parse_response as a state machine: an adapter is handed one response    *)
(* and parses it.                                                          *)
(***************************************************************************)
InitParse ==
  /\ sx = NoSyntax
  /\ tax_ids = NoTaxIds
  /\ calls = NoCalls
  /\ nz = NoNormalization
  /\ \E v \in Verifiers : \E response \in ParseInputs(v) :
       pr = [verifier |-> v, response |-> response, parsed |-> NotParsed]

CallParseResponse ==
  /\ pr.parsed.tag = "NotCalled"
  /\ pr.verifier \in Verifiers
  /\ \E order \in RequirementOrders :
       pr' = [pr EXCEPT !.parsed = parse_response(pr.verifier, pr.response, order)]
  /\ UNCHANGED <<tax_ids, calls, sx, nz>>

NextParse == CallParseResponse

SpecParse == InitParse /\ [][NextParse]_vars

(***************************************************************************)
(* Country-code normalization as a state machine: a variant is handed one  *)
(* two-character code and normalizes it, and then normalizes the result.   *)
(***************************************************************************)
CodeChars ==
  {"A", "B", "C", "D", "E", "F", "G", "H", "I", "K", "L", "M", "N", "O", "P", "R", "S",
   "T", "U", "V", "X", "Y", "Z", "e", "1", " "}

Codes == {a \o b : a \in CodeChars, b \in CodeChars}

InitCodes ==
  /\ tax_ids = NoTaxIds
  /\ calls = NoCalls
  /\ sx = NoSyntax
  /\ pr = NoParse
  /\ \E code \in Codes : nz = [NoNormalization EXCEPT !.code = code]

CallCountryCode(t) ==
  /\ nz.id_type = NoType
  /\ LET once == country_code_from_tax_country(t, nz.code) IN
       nz' = [nz EXCEPT !.id_type = t,
                        !.once = once,
                        !.twice = country_code_from_tax_country(t, once)]
  /\ UNCHANGED <<tax_ids, calls, sx, pr>>

NextCodes == \E t \in TaxIdTypes : CallCountryCode(t)

SpecCodes == InitCodes /\ [][NextCodes]_vars

(***************************************************************************)
(* The pipeline: callers create tax ids with TaxId::new and run verify on  *)
(* them; each verify call goes through make_request and parse_response.    *)
(***************************************************************************)
Init ==
  /\ tax_ids = NoTaxIds
  /\ calls = NoCalls
  /\ sx = NoSyntax
  /\ pr = NoParse
  /\ nz = NoNormalization

\* let tax_id = TaxId::new(value)?;
New(i, value) ==
  /\ tax_ids[i] = NoTaxId
  /\ LET created == TaxId_new(value) IN
       /\ created.tag = "Ok"
       /\ tax_ids' = [tax_ids EXCEPT ![i] = created.tax_id]
  /\ UNCHANGED <<calls, sx, pr, nz>>

\* tax_id.verify() is entered
Verify(c, i) ==
  /\ calls[c].pc = "idle"
  /\ tax_ids[i] # NoTaxId
  /\ calls' = [calls EXCEPT ![c] = [IdleCall EXCEPT !.pc = "make_request", !.tax_id = i]]
  /\ UNCHANGED <<tax_ids, sx, pr, nz>>

\* make_request with one response buffer shared by all running calls
MakeRequest_shared_response(c) ==
  /\ calls[c].pc = "make_request"
  /\ LET tax_id == tax_ids[calls[c].tax_id]
         v == verifier(tax_id.id_type)
     IN \E response \in NetOutcomes(v) :
          LET next == after_make_request(response) IN
          calls' = [d \in CallIds |->
                      IF d = c
                      THEN [calls[c] EXCEPT !.request = make_request(v, tax_id),
                                            !.response = response,
                                            !.n_make = @ + 1,
                                            !.pc = next.pc,
                                            !.result = next.result]
                      ELSE IF calls[d].pc = "parse_response"
                           THEN [calls[d] EXCEPT !.response = response]
                           ELSE calls[d]]
  /\ UNCHANGED <<tax_ids, sx, pr, nz>>

\* self.make_request(tax_id)?
MakeRequest(c) ==
  /\ calls[c].pc = "make_request"
  /\ LET tax_id == tax_ids[calls[c].tax_id]
         v == verifier(tax_id.id_type)
     IN \E response \in NetOutcomes(v) :
          LET next == after_make_request(response) IN
          calls' = [calls EXCEPT ![c] =
                      [@ EXCEPT !.request = make_request(v, tax_id),
                                !.response = response,
                                !.n_make = @ + 1,
                                !.pc = next.pc,
                                !.result = next.result]]
  /\ UNCHANGED <<tax_ids, sx, pr, nz>>

\* self.parse_response(response)?
ParseResponse(c) ==
  /\ calls[c].pc = "parse_response"
  /\ LET v == verifier(tax_ids[calls[c].tax_id].id_type)
         response == VerificationResponse(calls[c].response.status, calls[c].response.body)
     IN \E order \in RequirementOrders :
          calls' = [calls EXCEPT ![c] =
                      [@ EXCEPT !.parsed = calls[c].response,
                                !.result = parse_response(v, response, order),
                                !.n_parse = @ + 1,
                                !.pc = "done"]]
  /\ UNCHANGED <<tax_ids, sx, pr, nz>>

\* the caller takes the result
Return(c) ==
  /\ calls[c].pc = "done"
  /\ calls' = [calls EXCEPT ![c] = IdleCall]
  /\ UNCHANGED <<tax_ids, sx, pr, nz>>

Next ==
  \/ \E i \in TaxIdSlots, value \in NewInputs : New(i, value)
  \/ \E c \in CallIds, i \in TaxIdSlots : Verify(c, i)
  \/ \E c \in CallIds : MakeRequest(c)
  \/ \E c \in CallIds : ParseResponse(c)
  \/ \E c \in CallIds : Return(c)

Spec == Init /\ [][Next]_vars

(***************************************************************************)
(* Properties.                                                             *)
(***************************************************************************)
ContainsStr(str, sub) == Find(str, sub) >= 0

Prefix == SubSeq(sx.value, 1, 2)

Validated == sx.validated.tag # "NotCalled" /\ Len(sx.value) >= 2

Created == sx.created.tag # "NotCalled" /\ Len(sx.value) >= 2

EuCountryList ==
  {"AT", "BE", "BG", "CY", "CZ", "DE", "DK", "EE", "EL", "ES", "FI", "FR", "HR", "HU",
   "IE", "IT", "LT", "LU", "LV", "MT", "NL", "PL", "PT", "RO", "SE", "SI", "SK", "XI"}

ExpectedVariant(code) ==
  CASE code = "GB" -> "gb_vat"
    [] code = "CH" -> "ch_vat"
    [] code = "NO" -> "no_vat"
    [] code \in EuCountryList -> "eu_vat"
    [] OTHER -> NoType

ExpectedCountryCode(code) ==
  CASE code = "XI" -> "GB"
    [] code = "EL" -> "GR"
    [] OTHER -> code

\* C1: a verify call makes exactly one make_request; it calls parse_response
\* once, on the response that request returned, only if the request returned
\* Ok; if the request failed, verify ends with that error and parse_response is
\* not called; no step is repeated.
C1_VerifyOneRequestOneParse ==
  \A c \in CallIds :
    /\ calls[c].n_make <= 1
    /\ calls[c].n_parse <= 1
    /\ calls[c].pc = "make_request" => calls[c].n_make = 0 /\ calls[c].n_parse = 0
    /\ calls[c].pc = "parse_response" =>
         calls[c].n_make = 1 /\ calls[c].n_parse = 0 /\ calls[c].response.tag = "Ok"
    /\ calls[c].n_parse = 1 =>
         /\ calls[c].n_make = 1
         /\ calls[c].response.tag = "Ok"
         /\ calls[c].parsed = calls[c].response
    /\ calls[c].pc = "done" =>
         /\ calls[c].n_make = 1
         /\ calls[c].response.tag = "Err" =>
              /\ calls[c].n_parse = 0
              /\ calls[c].result.tag = "Err"
              /\ calls[c].result.kind = "HttpError"
         /\ calls[c].response.tag = "Ok" => calls[c].n_parse = 1

C1_Witness ==
  \E c, d \in CallIds :
    /\ calls[c].pc = "done" /\ calls[c].response.tag = "Err" /\ calls[c].n_parse = 0
    /\ calls[d].pc = "done" /\ calls[d].response.tag = "Ok" /\ calls[d].n_parse = 1

\* C3: validate_syntax of a value whose first two characters are not a key of
\* the syntax registry returns UnsupportedCountryCode with exactly those two
\* characters, never InvalidSyntax, whatever follows them.
C3_UnknownPrefixUnsupported ==
  Validated /\ Prefix \notin DOMAIN SYNTAX =>
    /\ sx.validated.tag = "Err"
    /\ sx.validated.kind = "UnsupportedCountryCode"
    /\ sx.validated.code = Prefix
    /\ sx.validated # InvalidSyntax

C3_Witness ==
  /\ sx.value = "XX123456789"
  /\ sx.validated = UnsupportedCountryCode("XX")

\* C4: validate_syntax of a value whose prefix is a key of the registry returns
\* Ok exactly when the whole string matches the pattern the owning variant
\* registered for the prefix, and InvalidSyntax otherwise; the valid samples of
\* the crate's tests pass and its invalid samples fail with InvalidSyntax.
C4_KnownPrefixMatchesPattern ==
  /\ Validated /\ Prefix \in DOMAIN SYNTAX =>
       /\ sx.validated \in {OkUnit, InvalidSyntax}
       /\ sx.validated = OkUnit <=>
            is_match(syntax_map(ExpectedVariant(Prefix))[Prefix], sx.value)
  /\ Validated /\ sx.value \in ValidSamples => sx.validated = OkUnit
  /\ Validated /\ sx.value \in TestInvalidSamples => sx.validated = InvalidSyntax

C4_Witness ==
  /\ sx.value = "CHE12"
  /\ sx.validated = InvalidSyntax

\* C5: TaxId::new selects the variant from the prefix alone: GB gives gb_vat,
\* CH ch_vat, NO no_vat, a prefix of the EU country list (XI and EL included)
\* eu_vat; any other prefix fails with UnsupportedCountryCode(prefix) whatever
\* the rest of the string is, and a supported prefix never does.
C5_NewSelectsVariant ==
  Created =>
    /\ id_type_for(Prefix) = ExpectedVariant(Prefix)
    /\ sx.created.tag = "Ok" => sx.created.tax_id.id_type = ExpectedVariant(Prefix)
    /\ ExpectedVariant(Prefix) = NoType =>
         /\ sx.created.tag = "Err"
         /\ sx.created.kind = "UnsupportedCountryCode"
         /\ sx.created.code = Prefix
    /\ ExpectedVariant(Prefix) # NoType =>
         /\ sx.created.tag \in {"Ok", "Err"}
         /\ sx.created.tag = "Err" => sx.created.kind = "InvalidSyntax"

C5_Witness ==
  /\ sx.value = "XI591819014"
  /\ sx.created.tag = "Ok"
  /\ sx.created.tax_id.id_type = "eu_vat"

\* C6: the normalization every variant applies to a two-character code always
\* yields a code and is idempotent; the EU variant maps XI to GB, EL to GR and
\* any other code to itself, the other variants map every code to itself, and
\* the variant the dispatch table gives a code maps XI to GB, EL to GR and any
\* other code to itself.
C6_NormalizationIdempotent ==
  nz.id_type # NoType =>
    /\ Len(nz.once) = 2
    /\ nz.twice = nz.once
    /\ nz.id_type = "eu_vat" => nz.once = ExpectedCountryCode(nz.code)
    /\ nz.id_type # "eu_vat" => nz.once = nz.code
    /\ nz.id_type = id_type_for(nz.code) => nz.once = ExpectedCountryCode(nz.code)

C6_Witness ==
  /\ nz.code = "EL"
  /\ nz.id_type = "eu_vat"
  /\ nz.once = "GR"
  /\ nz.twice = "GR"

\* C7: a TaxId returned by TaxId::new(value) has value equal to the input,
\* tax_country_code its first two characters, local_value everything after
\* them, and country_code the normalization of tax_country_code.
C7_AccessorsSplitValue ==
  Created /\ sx.created.tag = "Ok" =>
    LET t == sx.created.tax_id IN
    /\ t.value = sx.value
    /\ t.tax_country_code = SubSeq(sx.value, 1, 2)
    /\ t.tax_country_code \o t.local_value = sx.value
    /\ Len(t.local_value) = Len(sx.value) - 2
    /\ t.country_code = ExpectedCountryCode(t.tax_country_code)
    /\ sx.value = "CHE123456789" => t.local_value = "E123456789" /\ t.country_code = "CH"
    /\ sx.value = "XI123456789" =>
         t.id_type = "eu_vat" /\ t.country_code = "GB" /\ t.local_value = "123456789"

C7_Witness ==
  /\ sx.value = "XI123456789"
  /\ sx.created.tag = "Ok"
  /\ sx.created.tax_id.country_code = "GB"
  /\ sx.created.tax_id.local_value = "123456789"

\* what holds of every TaxId that exists and of every running verify call
C8_TaxIdState ==
  /\ \A i \in TaxIdSlots :
       tax_ids[i] # NoTaxId =>
         /\ tax_ids[i].tax_country_code \in DOMAIN SYNTAX
         /\ is_match(SYNTAX[tax_ids[i].tax_country_code], tax_ids[i].value)
         /\ tax_ids[i].id_type = ExpectedVariant(tax_ids[i].tax_country_code)
  /\ \A c \in CallIds :
       calls[c].pc # "idle" =>
         /\ calls[c].tax_id \in TaxIdSlots
         /\ TaxId_validate_syntax(tax_ids[calls[c].tax_id].value) = OkUnit

\* C8: every TaxId that exists matches the syntax pattern of its prefix and has
\* the variant the dispatch table gives its prefix; a request is only ever
\* issued for such an id; and once a TaxId exists no step changes it.
C8_TaxIdValidAndImmutable ==
  /\ []C8_TaxIdState
  /\ [][\A i \in TaxIdSlots : tax_ids[i] # NoTaxId => tax_ids'[i] = tax_ids[i]]_vars

C8_Witness ==
  \E c \in CallIds :
    /\ calls[c].pc = "done"
    /\ calls[c].n_make = 1
    /\ tax_ids[calls[c].tax_id].value = "CHE-778.887.921 MWST"

\* the fault string and the result the BFS adapter reads from a response
BfsParsed == pr.verifier = "BFS" /\ pr.parsed.tag # "NotCalled" /\ pr.response.body.kind = "xml"

BfsHash == BFS_xml_to_hash(pr.response.body.content)

BfsFault == GetDeref(BfsHash, "faultstring")

BfsResultElements ==
  {k \in DOMAIN pr.response.body.content :
     pr.response.body.content[k].tag = "ValidateVatNumberResult"}

\* C9: BFS parse_response of a response with a fault string: the fault
\* Data_validation_failed gives Unverified, Request_limit_exceeded gives
\* Unavailable, any other fault string gives the error UnexpectedResponse with
\* a message that contains the fault string.
C9_BfsFaultString ==
  BfsParsed /\ BfsFault.some =>
    CASE BfsFault.v = "Data_validation_failed" ->
           pr.parsed.tag = "Ok" /\ pr.parsed.status = Unverified
      [] BfsFault.v = "Request_limit_exceeded" ->
           pr.parsed.tag = "Ok" /\ pr.parsed.status.s = "Unavailable"
      [] OTHER ->
           /\ pr.parsed.tag = "Err"
           /\ pr.parsed.kind = "UnexpectedResponse"
           /\ ContainsStr(pr.parsed.msg, BfsFault.v)

C9_Witness ==
  /\ BfsParsed
  /\ BfsFault = Some("Unexpected_fault_string")
  /\ pr.parsed.tag = "Err"
  /\ pr.parsed.msg = "Unexpected faultstring: Unexpected_fault_string"

\* C10: BFS parse_response of a response without a fault string: the result
\* "true" gives Verified, "false" gives Unverified, and any other result, an
\* empty result element or no result element gives the error
\* UnexpectedResponse.
C10_BfsResult ==
  BfsParsed /\ ~BfsFault.some =>
    LET result == GetDeref(BfsHash, "ValidateVatNumberResult")
        failed == pr.parsed.tag = "Err" /\ pr.parsed.kind = "UnexpectedResponse"
    IN /\ result = Some("true") => pr.parsed.tag = "Ok" /\ pr.parsed.status = Verified
       /\ result = Some("false") => pr.parsed.tag = "Ok" /\ pr.parsed.status = Unverified
       /\ result \notin {Some("true"), Some("false")} => failed
       /\ BfsResultElements = {} => failed
       /\ (\A k \in BfsResultElements : ~pr.response.body.content[k].text.some) => failed

C10_Witness ==
  /\ BfsParsed
  /\ ~BfsFault.some
  /\ BfsResultElements # {}
  /\ \A k \in BfsResultElements : ~pr.response.body.content[k].text.some
  /\ pr.parsed.tag = "Err"

\* the failure indicators each adapter names in its code, and those of them it
\* maps to Unavailable (for HMRC, the code its test expects to be Unavailable)
ViesParsed == pr.verifier = "Vies" /\ pr.parsed.tag # "NotCalled" /\ pr.response.body.kind = "xml"

ViesFault == GetDeref(Vies_xml_to_hash(pr.response.body.content), "faultstring")

HmrcParsed ==
  /\ pr.verifier = "Hmrc"
  /\ pr.parsed.tag # "NotCalled"
  /\ pr.response.body.kind = "json"
  /\ pr.response.body.content.j = "obj"

HmrcCode == Hmrc_fault(pr.response.body.content.v)

BrRegParsed == pr.verifier = "BrReg" /\ pr.parsed.tag # "NotCalled"

IsUnavailable == pr.parsed.tag = "Ok" /\ pr.parsed.status.s = "Unavailable"

IsVerificationError == pr.parsed.tag = "Err"

\* C2: in every adapter parse_response gives Unavailable only for a failure
\* indicator the adapter recognises, and a fault string, error code or status
\* code it does not recognise gives a VerificationError, never Unverified or
\* Unavailable.
C2_UnknownFailureIsError ==
  /\ BfsParsed =>
       /\ IsUnavailable => BfsFault = Some("Request_limit_exceeded")
       /\ BfsFault.some
            /\ BfsFault.v \notin {"Data_validation_failed", "Request_limit_exceeded"}
            => IsVerificationError
  /\ ViesParsed =>
       /\ IsUnavailable => ViesFault.some /\ ViesFault.v \in DOMAIN FAULT_MAP
       /\ ViesFault.some /\ ViesFault.v \notin DOMAIN FAULT_MAP => IsVerificationError
  /\ HmrcParsed =>
       /\ IsUnavailable => HmrcCode = Some("SERVER_ERROR")
       /\ HmrcCode.some /\ HmrcCode.v \notin {"NOT_FOUND", "SERVER_ERROR"}
            => IsVerificationError
  /\ BrRegParsed =>
       /\ IsUnavailable => pr.response.status = 500
       /\ pr.response.status \notin {200, 404, 410, 500} => IsVerificationError

\* C11: VIES parse_response of a response with a fault string: each of the nine
\* fault strings of the table gives Unavailable with the reason the table
\* lists for it, and every other fault string gives the error
\* UnexpectedResponse, never a Verification.
C11_ViesFaultTable ==
  LET table ==
        [f \in {"SERVICE_UNAVAILABLE", "MS_UNAVAILABLE"} |-> "ServiceUnavailable"]
        @@ [f \in {"TIMEOUT"} |-> "Timeout"]
        @@ [f \in {"VAT_BLOCKED", "IP_BLOCKED"} |-> "Block"]
        @@ [f \in {"GLOBAL_MAX_CONCURRENT_REQ", "GLOBAL_MAX_CONCURRENT_REQ_TIME",
                   "MS_MAX_CONCURRENT_REQ", "MS_MAX_CONCURRENT_REQ_TIME"} |-> "RateLimit"]
  IN ViesParsed /\ ViesFault.some =>
       IF ViesFault.v \in DOMAIN table
       THEN /\ pr.parsed.tag = "Ok"
            /\ pr.parsed.status = Unavailable(table[ViesFault.v])
       ELSE /\ pr.parsed.tag = "Err"
            /\ pr.parsed.kind = "UnexpectedResponse"
            /\ ContainsStr(pr.parsed.msg, ViesFault.v)

C11_Witness ==
  /\ ViesParsed
  /\ ViesFault = Some("INVALID_INPUT")
  /\ GetDeref(Vies_xml_to_hash(pr.response.body.content), "valid") = Some("true")
  /\ pr.parsed.tag = "Err"
  /\ pr.parsed.msg = "Unknown fault code: INVALID_INPUT"

\* the valid field the VIES adapter reads, and the outcome of a response that
\* has neither a fault nor a valid element
ViesValid == GetDeref(Vies_xml_to_hash(pr.response.body.content), "valid")

ViesValidElements ==
  {k \in DOMAIN pr.response.body.content : pr.response.body.content[k].tag = "valid"}

ViesMissingValid ==
  Vies_parse_response(VerificationResponse(200, XmlBody(ViesDoc(Absent, Absent, "---"))))

\* C12: VIES parse_response of a response without a fault string: valid "true"
\* gives Verified, valid "false" gives Unverified, a response without a valid
\* element gives the error UnexpectedResponse, and any other text of valid
\* gives the error UnexpectedResponse with a message different from the one
\* of the missing field.
C12_ViesValid ==
  ViesParsed /\ ~ViesFault.some =>
    /\ ViesValid = Some("true") => pr.parsed.tag = "Ok" /\ pr.parsed.status = Verified
    /\ ViesValid = Some("false") => pr.parsed.tag = "Ok" /\ pr.parsed.status = Unverified
    /\ ViesValidElements = {} =>
         /\ pr.parsed.tag = "Err"
         /\ pr.parsed.kind = "UnexpectedResponse"
         /\ pr.parsed.msg = ViesMissingValid.msg
    /\ ViesValid.some /\ ViesValid.v \notin {"true", "false"} =>
         /\ pr.parsed.tag = "Err"
         /\ pr.parsed.kind = "UnexpectedResponse"
         /\ pr.parsed.msg # ViesMissingValid.msg
    /\ pr.parsed.tag = "Ok" => ViesValid \in {Some("true"), Some("false")}

C12_Witness ==
  /\ ViesParsed
  /\ ~ViesFault.some
  /\ ViesValid = Some("TRUE")
  /\ pr.parsed.tag = "Err"
  /\ pr.parsed.msg = "Invalid value for valid field in VIES response"

\* the elements of the response that xml_to_hash stores: those with a tag
\* that is not a wrapper and with a text; ViesLast is the last such element
\* of its tag, whose insert the map keeps
ViesStored(k) ==
  LET node == pr.response.body.content[k] IN
  /\ ~IsBlank(node.tag)
  /\ node.tag \notin {"Body", "Envelope", "Fault"}
  /\ node.text.some

ViesLast(k) ==
  \A l \in DOMAIN pr.response.body.content :
    l > k /\ ViesStored(l) => pr.response.body.content[l].tag # pr.response.body.content[k].tag

\* C13: the map VIES flattens a response into holds, for every element that is
\* not a wrapper and has the text "---", its tag as a key with a null value,
\* and for every other text the text itself; no value is the string "---",
\* Body, Envelope and Fault are never keys, and the payload of the
\* Verification is this map.
C13_ViesXmlToHash ==
  ViesParsed =>
    LET doc == pr.response.body.content
        hash == Vies_xml_to_hash(doc)
    IN /\ \A k \in DOMAIN doc :
            ViesStored(k) /\ ViesLast(k) =>
              /\ doc[k].tag \in DOMAIN hash
              /\ doc[k].text.v = "---" => hash[doc[k].tag] = None
              /\ doc[k].text.v # "---" => hash[doc[k].tag] = Some(doc[k].text.v)
       /\ \A key \in DOMAIN hash :
            /\ hash[key] # Some("---")
            /\ key \notin {"Body", "Envelope", "Fault"}
            /\ \E k \in DOMAIN doc : ViesStored(k) /\ doc[k].tag = key
       /\ pr.parsed.tag = "Ok" =>
            /\ pr.parsed.data.j = "obj"
            /\ DOMAIN pr.parsed.data.v = DOMAIN hash
            /\ \A key \in DOMAIN hash :
                 pr.parsed.data.v[key] = IF hash[key].some THEN JStr(hash[key].v) ELSE JNull

C13_Witness ==
  /\ ViesParsed
  /\ \E k \in DOMAIN pr.response.body.content :
       /\ pr.response.body.content[k] = El("address", Some("---"))
       /\ ViesLast(k)
  /\ \E k \in DOMAIN pr.response.body.content :
       pr.response.body.content[k] = El("Fault", Some("---"))
  /\ pr.parsed.tag = "Ok"
  /\ pr.parsed.data.v["address"] = JNull
  /\ pr.parsed.data.v["name"] = JStr("Test Company")

C15_HmrcCodeNeverVerified ==
  HmrcParsed /\ "code" \in DOMAIN pr.response.body.content.v =>
    /\ pr.parsed.tag = "Ok"
    /\ pr.parsed.status # Verified
    /\ pr.parsed.status.s \in {"Unverified", "Unavailable"}

\* C16: BRREG parse_response of a response with status 404 or 410 gives
\* Unverified with the empty object as payload whatever the body is: empty,
\* an entity, a JSON value that is not an object, or not JSON at all.
C16_BrRegNotFound ==
  BrRegParsed /\ pr.response.status \in {404, 410} =>
    /\ pr.parsed.tag = "Ok"
    /\ pr.parsed.status = Unverified
    /\ pr.parsed.data = JObj(EmptyMap)

C16_Witness ==
  /\ BrRegParsed
  /\ pr.response.status = 410
  /\ pr.response.body = GarbageBody
  /\ pr.parsed.tag = "Ok"
  /\ pr.parsed.status = Unverified

\* the keys of a JSON object as translate_keys renames them
BrRegRenamed(object) ==
  {IF k \in DOMAIN TRANSLATIONS THEN TRANSLATIONS[k] ELSE k : k \in DOMAIN object}

\* the body of the response is a JSON object
BrRegObject == pr.response.body.kind = "json" /\ pr.response.body.content.j = "obj"

\* C17: BRREG parse_response of a response with status 500 whose body is a
\* JSON object gives Unavailable(ServiceUnavailable) with the translated
\* object as payload, also when the four qualification fields of the object
\* all pass.
C17_BrRegServerError ==
  BrRegParsed /\ pr.response.status = 500 /\ BrRegObject =>
    /\ pr.parsed.tag = "Ok"
    /\ pr.parsed.status = Unavailable("ServiceUnavailable")
    /\ pr.parsed.data = translate_keys(pr.response.body.content)
    /\ DOMAIN pr.parsed.data.v = BrRegRenamed(pr.response.body.content.v)

C17_Witness ==
  /\ BrRegParsed
  /\ pr.response.status = 500
  /\ pr.response.body = JsonBody(BrRegNested)
  /\ pr.parsed.status = Unavailable("ServiceUnavailable")
  /\ \A key \in DOMAIN REQUIREMENTS_TO_BE_VALID :
       pr.parsed.data.v[key] = JBool(REQUIREMENTS_TO_BE_VALID[key])
  /\ pr.parsed.data.v["businessAddress"] = JObj("countryCode" :> JStr("NO"))

\* C18: BRREG parse_response of a response with a status other than 200, 404,
\* 410 and 500 gives the error UnexpectedStatusCode with that status code,
\* whatever the body is, and never a Verification.
C18_BrRegUnexpectedStatus ==
  BrRegParsed /\ pr.response.status \notin {200, 404, 410, 500} =>
    /\ pr.parsed.tag = "Err"
    /\ pr.parsed.kind = "UnexpectedStatusCode"
    /\ pr.parsed.code = pr.response.status

C18_Witness ==
  /\ BrRegParsed
  /\ pr.response.status = 503
  /\ pr.response.body = JsonBody(BrRegError)
  /\ pr.parsed.tag = "Err"
  /\ pr.parsed.code = 503

\* C19: BRREG parse_response of a response with status 200 whose body is a
\* JSON object gives Verified exactly when, in the translated object,
\* registeredInVatRegister is true and bankruptcy, underLiquidation and
\* underForcedLiquidation are false, and Unverified when any of the four is
\* absent or has any other value; the payload is the translated object.
C19_BrRegQualification ==
  BrRegParsed /\ pr.response.status = 200 /\ BrRegObject =>
    LET translated == translate_keys(pr.response.body.content)
        passes == \A key \in DOMAIN REQUIREMENTS_TO_BE_VALID :
                    /\ key \in DOMAIN translated.v
                    /\ translated.v[key] = JBool(REQUIREMENTS_TO_BE_VALID[key])
    IN /\ pr.parsed.tag = "Ok"
       /\ pr.parsed.data = translated
       /\ pr.parsed.status = IF passes THEN Verified ELSE Unverified

\* C20: the status of every Verification an adapter returns is Verified,
\* Unverified or Unavailable, and every Unavailable carries one reason out of
\* ServiceUnavailable, Timeout, Block and RateLimit, in BFS and HMRC as in
\* VIES and BRREG.
C20_StatusWellFormed ==
  pr.parsed.tag = "Ok" =>
    /\ pr.parsed.status.s \in {"Verified", "Unverified", "Unavailable"}
    /\ pr.parsed.status.s \in {"Verified", "Unverified"} => pr.parsed.status.reason = NoReason
    /\ pr.parsed.status.s = "Unavailable" =>
         pr.parsed.status.reason \in {"ServiceUnavailable", "Timeout", "Block", "RateLimit"}

\* the variants whose syntax map has an entry for the country code
Claimants(code) == {t \in TaxIdTypes : code \in DOMAIN syntax_map(t)}

\* C21: the registry SYNTAX is the union of the syntax maps of the four
\* variants: its keys are GB, CH, NO and the 28 EU codes, every key is claimed
\* by exactly one variant and holds that variant's pattern, and the keys of
\* the EU pattern map are the codes of the EU country list; so a lookup in the
\* registry finds a pattern exactly when one variant has one for the prefix.
C21_RegistryIsUnion ==
  /\ DOMAIN SYNTAX = UNION {DOMAIN syntax_map(t) : t \in TaxIdTypes}
  /\ \A code \in DOMAIN SYNTAX :
       /\ Cardinality(Claimants(code)) = 1
       /\ \A t \in Claimants(code) : SYNTAX[code] = syntax_map(t)[code]
  /\ DOMAIN SYNTAX = {"GB", "CH", "NO"} \cup EuCountryList
  /\ Cardinality(DOMAIN SYNTAX) = 31
  /\ Len(COUNTRIES) = 28
  /\ \A i, j \in DOMAIN COUNTRIES : COUNTRIES[i] = COUNTRIES[j] => i = j
  /\ DOMAIN EU_VAT_PATTERNS = {COUNTRIES[i] : i \in DOMAIN COUNTRIES}
  /\ Validated =>
       (sx.validated.kind = "UnsupportedCountryCode" <=> Claimants(Prefix) = {})

C21_Witness ==
  /\ Validated
  /\ sx.value = "XI123456789"
  /\ sx.validated = OkUnit
  /\ Claimants(Prefix) = {"eu_vat"}
  /\ SYNTAX[Prefix] = EU_VAT_PATTERNS["XI"]
  /\ SYNTAX["GB"] = GB_VAT_PATTERN["GB"]

\* the result of the verify call c when it runs alone: from its own TaxId
\* and the outcome of its own request
RanAlone(c) ==
  LET tax_id == tax_ids[calls[c].tax_id]
      v == verifier(tax_id.id_type)
      response == calls[c].response
  IN /\ calls[c].request = make_request(v, tax_id)
     /\ response \in NetOutcomes(v)
     /\ IF response.tag = "Err"
        THEN calls[c].result = VerificationError("HttpError", "", 0)
        ELSE \E order \in RequirementOrders :
               calls[c].result =
                 parse_response(v, VerificationResponse(response.status, response.body), order)

C23_SwissEnvelope ==
  LET swiss == "CHE-778.887.921 MWST" IN
  /\ TaxId_validate_syntax(swiss) = OkUnit
  /\ \A i \in TaxIdSlots :
       tax_ids[i].value = swiss =>
         /\ tax_ids[i].id_type = "ch_vat"
         /\ tax_ids[i].tax_country_code = "CH"
         /\ verifier(tax_ids[i].id_type) = "BFS"
  /\ \A c \in CallIds :
       calls[c].pc # "idle" /\ tax_ids[calls[c].tax_id].value = swiss =>
         /\ calls[c].n_make <= 1
         /\ calls[c].n_make = 1 =>
              /\ calls[c].request.verifier = "BFS"
              /\ calls[c].request.method = "POST"
              /\ calls[c].request.uri = BFS_URI
              /\ calls[c].request.body =
                   "<soapenv:Envelope><soapenv:Header/><soapenv:Body><uid:ValidateVatNumber>"
                   \o "<uid:vatNumber>" \o swiss \o "</uid:vatNumber>"
                   \o "</uid:ValidateVatNumber></soapenv:Body></soapenv:Envelope>"
              /\ ~ContainsStr(calls[c].request.body, "{value}")

C23_Witness ==
  \E c \in CallIds :
    /\ calls[c].pc = "parse_response"
    /\ calls[c].n_make = 1
    /\ tax_ids[calls[c].tax_id].value = "CHE-778.887.921 MWST"
    /\ calls[c].request.verifier = "BFS"
    /\ ContainsStr(calls[c].request.body, "<uid:vatNumber>CHE-778.887.921 MWST</uid:vatNumber>")

\* the request built for the TaxId created from the input string
RequestBuilt(c) == sx.created.tag = "Ok" /\ calls[c].pc = "make_request"

\* C24: for every valid Norwegian TaxId the path of the BRREG request ends in
\* the organisation number, which is local_value without the suffix MVA: the
\* nine digits that follow the prefix, whether the id was written with the
\* suffix or without it.
C24_BrRegOrgNumber ==
  \A c \in CallIds :
    RequestBuilt(c) /\ sx.created.tax_id.id_type = "no_vat" =>
      LET tax_id == sx.created.tax_id
          digits == SubSeq(sx.value, 3, 11)
      IN /\ tax_id.local_value \in {digits, digits \o "MVA"}
         /\ Len(digits) = 9
         /\ \A k \in 1 .. 9 : SubSeq(digits, k, k) \in Digits
         /\ calls[c].request.verifier = "BrReg"
         /\ calls[c].request.method = "GET"
         /\ calls[c].request.uri = BrReg_BASE_URI \o "/" \o digits
         /\ sx.value \in {"NO123456789MVA", "NO123456789"} =>
              calls[c].request.uri =
                "https://data.brreg.no/enhetsregisteret/api/enheter/123456789"

C24_Witness ==
  \E c \in CallIds :
    /\ RequestBuilt(c)
    /\ sx.value = "NO023456789MVA"
    /\ sx.created.tax_id.local_value = "023456789MVA"
    /\ calls[c].request.uri = "https://data.brreg.no/enhetsregisteret/api/enheter/023456789"

\* C25: parse_response of every adapter is total: for every status code and
\* every body it returns a Verification or a VerificationError and never
\* aborts, also for a JSON body that is not an object and for a BRREG
\* qualification field that is not a boolean.
C25_ParseResponseTotal ==
  pr.verifier \in Verifiers /\ pr.parsed.tag # "NotCalled" =>
    /\ pr.parsed.tag \in {"Ok", "Err"}
    /\ pr.parsed.tag # "Panic"

\* C26: TaxId::validate_syntax and TaxId::new of a string shorter than two
\* characters, the empty string included, return an error value and do not
\* panic while taking the two-character prefix.
C26_ShortInputIsError ==
  Len(sx.value) < 2 =>
    /\ sx.validated.tag # "NotCalled" => sx.validated.tag = "Err"
    /\ sx.created.tag # "NotCalled" => sx.created.tag = "Err"

\* C27: on every input of at least two characters TaxId::new and
\* TaxId::validate_syntax agree: new succeeds exactly when validate_syntax
\* returns Ok, and when they fail they fail with the same error,
\* UnsupportedCountryCode with the same prefix or InvalidSyntax.
C27_NewAgreesWithValidateSyntax ==
  Validated /\ Created =>
    /\ sx.validated.tag \in {"Ok", "Err"}
    /\ sx.created.tag = sx.validated.tag
    /\ sx.created.kind = sx.validated.kind
    /\ sx.created.code = sx.validated.code
    /\ sx.validated.tag = "Err" =>
         \/ sx.validated = UnsupportedCountryCode(Prefix)
         \/ sx.validated = InvalidSyntax

C27_Witness ==
  /\ Validated
  /\ Created
  /\ sx.value = "XI12345678A"
  /\ sx.validated = InvalidSyntax
  /\ sx.created.tag = "Err"
  /\ sx.created.kind = "InvalidSyntax"

\* C28: in the BFS, VIES and HMRC adapters the outcome of parse_response
\* depends on the body alone: the response with the same body and any other
\* status code gives the same status and payload, or the same error.
C28_StatusCodeIgnored ==
  pr.verifier \in {"BFS", "Vies", "Hmrc"} /\ pr.parsed.tag # "NotCalled" =>
    \A status \in Statuses(pr.verifier), order \in RequirementOrders :
      parse_response(pr.verifier, VerificationResponse(status, pr.response.body), order)
        = pr.parsed

C28_Witness ==
  /\ pr.verifier = "BFS"
  /\ pr.response.status = 500
  /\ BfsParsed
  /\ BfsFault = Some("Data_validation_failed")
  /\ pr.parsed.tag = "Ok"
  /\ pr.parsed.status = Unverified
  /\ pr.parsed = parse_response("BFS", VerificationResponse(200, pr.response.body),
                                <<"registeredInVatRegister", "bankruptcy", "underLiquidation",
                                  "underForcedLiquidation">>)

\* what a result decides, without the payload
Decision(result) ==
  [tag |-> result.tag, status |-> result.status, kind |-> result.kind, msg |-> result.msg]

\* C29: in the BFS and VIES adapters a fault string takes precedence over the
\* result field: when the flattened response holds a faultstring with a text,
\* the outcome is the one of a response that carries that fault string and no
\* result field at all, and it is never Verified, whatever
\* ValidateVatNumberResult or valid says.
C29_FaultPrecedence ==
  /\ BfsParsed /\ BfsFault.some =>
       /\ Decision(pr.parsed) =
            Decision(BFS_parse_response(
                       VerificationResponse(200, XmlBody(BfsDoc(Present(BfsFault), Absent, Absent)))))
       /\ ~(pr.parsed.tag = "Ok" /\ pr.parsed.status = Verified)
  /\ ViesParsed /\ ViesFault.some =>
       /\ Decision(pr.parsed) =
            Decision(Vies_parse_response(
                       VerificationResponse(200, XmlBody(ViesDoc(Present(ViesFault), Absent, "---")))))
       /\ ~(pr.parsed.tag = "Ok" /\ pr.parsed.status = Verified)

C29_Witness ==
  /\ ViesParsed
  /\ ViesFault = Some("TIMEOUT")
  /\ ViesValid = Some("true")
  /\ pr.parsed.tag = "Ok"
  /\ pr.parsed.status = Unavailable("Timeout")
  /\ pr.parsed.data.v["valid"] = JStr("true")

\* the elements of the response with the given tag and the text "---"
ViesDashed(tag) ==
  {k \in DOMAIN pr.response.body.content : pr.response.body.content[k] = El(tag, Some("---"))}

\* C30: in the VIES adapter "---" means absent in the decision fields too: a
\* response whose valid element has the text "---" gives the error of a
\* response without a valid element, and a faultstring element with the text
\* "---" is no fault: the outcome is the one of the same response without the
\* fault, decided by valid.
C30_ViesDashedDecisionFields ==
  ViesParsed =>
    /\ ViesDashed("valid") # {} /\ ~ViesFault.some =>
         /\ ViesValid = None
         /\ Decision(pr.parsed) = Decision(ViesMissingValid)
         /\ pr.parsed.msg = "Missing valid field in VIES response"
    /\ ViesDashed("faultstring") # {} =>
         /\ ViesFault = None
         /\ Decision(pr.parsed) = Decision(Vies_valid_status(ViesValid))
         /\ ViesValid = Some("true") => pr.parsed.tag = "Ok" /\ pr.parsed.status = Verified
         /\ ViesValid = Some("false") => pr.parsed.tag = "Ok" /\ pr.parsed.status = Unverified
         /\ ~ViesValid.some => Decision(pr.parsed) = Decision(ViesMissingValid)

C30_Witness ==
  /\ ViesParsed
  /\ ViesDashed("faultstring") # {}
  /\ ViesValid = Some("true")
  /\ pr.parsed.tag = "Ok"
  /\ pr.parsed.status = Verified
  /\ pr.parsed.data.v["faultstring"] = JNull

====
